---------------------------- MODULE Spec2Model ----------------------------
(***************************************************************************)
(* Model of druellan/openwebui-importer's web front-end:                   *)
(*   src/start_web_server.py  - the launcher (check_dependencies, main,    *)
(*                              the Timer thread running open_browser)     *)
(*   src/webserver/server.py  - ConvertHandler.do_GET / do_POST and        *)
(*                              run_server (a single-threaded HTTPServer)  *)
(*                                                                         *)
(* Text is modelled as a sequence of string tokens, so that "the message   *)
(* contains the captured output" and "the header value can be encoded as   *)
(* Latin-1" are properties of the token sequence.  A filesystem path is a  *)
(* sequence of components, a component is a sequence of tokens; a user id  *)
(* is the sequence of its '/'-separated segments.                          *)
(***************************************************************************)
EXTENDS Integers, Sequences, FiniteSets, TLC

VARIABLES
    \* ---- launcher (start_web_server.py) ----
    lpc,          \* position of main(): "start","deps_ok","port_ok","timer_started","waiting","exited"
    lenv,         \* what the launcher found: missing files, the uv probe, sys.argv[1:]
    exitCode,     \* exit status of sys.exit(main()) (-1: still running)
    printed,      \* the messages the launcher printed
    port,         \* the port main() settled on (0: not yet)
    timerStarts,  \* how many times Timer(...).start() ran
    browser,      \* the Timer thread: "none","pending","opened","failed"
    serverSpawns, \* how many times main() ran subprocess.run([... 'webserver/server.py' ...])
    \* ---- server process (server.py) ----
    srv,          \* "down","starting","serving","stopped","exited"
    served,       \* number of requests accepted so far; the current request's identity
    \* ---- the request being handled (HTTPServer handles one at a time) ----
    pc,           \* position of the handler
    req,          \* what the handler has read of the request so far
    loc,          \* the handler's locals: temp_dir, result of subprocess.run, ...
    resp,         \* header buffer, bytes on the wire, body chunks
    conv,         \* the converter subprocess: state, time subprocess.run has waited, what it did
    \* ---- the machine ----
    fs,           \* filesystem: [dirs, files]; a file remembers which request's run wrote it
    archivesSent  \* number of 200 responses that carried an archive

vars == <<lpc, lenv, exitCode, printed, port, timerStarts, browser, serverSpawns,
          srv, served, pc, req, loc, resp, conv, fs, archivesSent>>

launcherVars == <<lpc, lenv, exitCode, printed, port, timerStarts, browser, serverSpawns>>
handlerVars  == <<pc, req, loc, resp, conv, fs, archivesSent>>

(***************************************************************************)
(* Bounds and program constants                                            *)
(***************************************************************************)
\* number of requests one run of the server accepts
NumRequests == 2

\* subprocess.run(..., timeout=60)
Timeout == 60

\* default port of the launcher and of the server's --port flag
DefaultPort == 3010

(***************************************************************************)
(* Text                                                                    *)
(***************************************************************************)
Range(s) == {s[i] : i \in 1..Len(s)}

\* tokens that stand for text holding a character outside Latin-1
NonLatin1Tokens == {"uid_cjk", "dir_cjk", "ERR_cjk", "OUT_cjk"}

\* str.encode('latin-1', 'strict') succeeds
Latin1(text) == Range(text) \cap NonLatin1Tokens = {}

\* Python's `needle in text`; the empty string is in every string
Contains(text, needle) == needle = "" \/ needle \in Range(text)

RECURSIVE Flatten(_)
Flatten(p) == IF p = <<>> THEN <<>> ELSE Head(p) \o Flatten(Tail(p))

(***************************************************************************)
(* Paths and the filesystem                                                *)
(***************************************************************************)
IsPrefix(p, q) == Len(p) <= Len(q) /\ SubSeq(q, 1, Len(p)) = p

Parent(p) == SubSeq(p, 1, Len(p) - 1)

\* names tempfile.mkdtemp can hand out
TmpNames == {<<"tmpA">>, <<"tmpB">>}

\* os.path.join(temp_dir, 'conversations.json')
input_file(d) == <<d, <<"conversations.json">>>>

\* variant of output_dir: one output directory under the working directory,
\* the same for every request
output_dirShared(d) == << <<"cwd">>, <<"output">> >>

\* os.path.join(temp_dir, 'output')
output_dir(d) == <<d, <<"output">>>>

\* os.path.join(output_dir, 'chatgpt')
chatgpt_output_dir(d) == output_dir(d) \o << <<"chatgpt">> >>

\* f'chatgpt_converted_{user_id}.zip' as path components: a '/' in the
\* user id starts a new component
ZipName(uid) ==
    IF Len(uid) = 1
    THEN << <<"chatgpt_converted_", uid[1], ".zip">> >>
    ELSE << <<"chatgpt_converted_", uid[1]>> >>
         \o [i \in 1..(Len(uid) - 2) |-> <<uid[i + 1]>>]
         \o << <<uid[Len(uid)], ".zip">> >>

\* os.path.join(temp_dir, f'chatgpt_converted_{user_id}.zip')
zip_path(d, uid) == <<d>> \o ZipName(uid)

\* os.makedirs(p, exist_ok=True)
MakeDirs(f, p) == [f EXCEPT !.dirs = @ \cup {SubSeq(p, 1, i) : i \in 1..Len(p)}]

\* open(p, 'w').write(...) by request o; the parent directory must exist
CanCreate(f, p) == Parent(p) \in f.dirs /\ p \notin f.dirs

WriteFile(f, p, o) ==
    [f EXCEPT !.files = {x \in @ : x.path # p} \cup {[path |-> p, origin |-> o]}]

\* os.path.exists(p)
Exists(f, p) == p \in f.dirs \/ \E x \in f.files : x.path = p

\* variant of TemporaryDirectoryExit: the directory is left behind (a bare
\* tempfile.mkdtemp() with no rmtree)
TemporaryDirectoryLeak(f, d) == f

\* TemporaryDirectory.__exit__: shutil.rmtree(temp_dir)
TemporaryDirectoryExit(f, d) ==
    [dirs  |-> {p \in f.dirs : ~IsPrefix(<<d>>, p)},
     files |-> {x \in f.files : ~IsPrefix(<<d>>, x.path)}]

\* the os.walk loop: every file below root, named by os.path.relpath
WalkEntries(f, root) ==
    {[name   |-> SubSeq(x.path, Len(root) + 1, Len(x.path)),
      origin |-> x.origin] :
        x \in {y \in f.files : IsPrefix(root, y.path) /\ Len(y.path) > Len(root)}}


(***************************************************************************)
(* BaseHTTPRequestHandler: the response                                    *)
(***************************************************************************)
StatusLine(code, msg) == [kind |-> "status", code |-> code, text |-> msg]

Header(name, value) == [kind |-> "header", code |-> 0, text |-> <<name>> \o value]

Chunk(kind, text, entries) == [kind |-> kind, text |-> text, entries |-> entries]

NoResponse == [hdrbuf |-> <<>>, wire |-> <<>>, body |-> <<>>]

\* send_response: the status line goes to the header buffer; encoding it
\* as Latin-1 comes first and may raise
CanSendResponse(msg) == Latin1(msg)

send_response(r, code, msg) == [r EXCEPT !.hdrbuf = @ \o <<StatusLine(code, msg)>>]

\* send_header: likewise buffered, likewise Latin-1
CanSendHeader(value) == Latin1(value)

send_header(r, name, value) == [r EXCEPT !.hdrbuf = @ \o <<Header(name, value)>>]

\* end_headers: flush the buffer to the socket
end_headers(r) == [r EXCEPT !.wire = @ \o r.hdrbuf, !.hdrbuf = <<>>]

\* wfile.write
Write(r, chunk) == [r EXCEPT !.body = @ \o <<chunk>>]

\* send_error(code, message), for a message that encodes
send_error(r, code, msg) ==
    Write(end_headers(send_header(send_response(r, code, msg),
                                  "Content-Type", <<"text/html;charset=utf-8">>)),
          Chunk("error", msg, {}))

\* `except Exception as e:` of do_POST: send_error(500, "Internal server
\* error: " + str(e)); an exception raised in there leaves do_POST
Caught(r, emsg) ==
    LET msg == <<"Internal server error: ">> \o emsg IN
    IF CanSendResponse(msg)
    THEN [raised |-> FALSE, resp |-> send_error(r, 500, msg)]
    ELSE [raised |-> TRUE, resp |-> r]

UnicodeEncodeError == <<"'latin-1' codec can't encode characters">>

\* a self.send_error(...) call inside the try block of do_POST
TrySendError(r, code, msg) ==
    IF CanSendResponse(msg)
    THEN [raised |-> FALSE, resp |-> send_error(r, code, msg)]
    ELSE Caught(r, UnicodeEncodeError)

\* the status lines that reached the client, in order
Statuses(r) == SelectSeq(r.wire, LAMBDA l : l.kind = "status")

StatusCodes(r) == [i \in 1..Len(Statuses(r)) |-> Statuses(r)[i].code]

\* the response headers that reached the client
HeaderSent(r, name, value) == \E i \in 1..Len(r.wire) : r.wire[i] = Header(name, value)

(***************************************************************************)
(* Requests                                                                *)
(***************************************************************************)
Methods == {"GET", "POST"}

Paths == {"/", "/webserver/index.html", "/convert", "/other"}

\* the Content-Type request header; "<absent>": the header is not there
ContentTypes == {"<absent>", "application/json",
                 "multipart/form-data", "multipart/form-data; boundary=XX"}

\* content_type.startswith('multipart/form-data')
IsMultipart(ct) == ct \in {"multipart/form-data", "multipart/form-data; boundary=XX"}

\* a user id, as its '/'-separated segments
UserIds == {<<"u1">>, <<"u2">>, <<"a", "b">>, <<"uid_cjk">>, <<"dir_cjk", "b">>}

\* the values the form holds under 'userId' (none, one, or the field repeated)
UserIdFields == {<<>>} \cup {<<u>> : u \in UserIds} \cup {<<<<"u1">>, <<"u2">>>>}

\* the parts the form holds under 'chatFile', each with its filename
ChatFileFields == {<<>>, <<"">>, <<"conversations.json">>, <<"a.json", "b.json">>}

\* what the uploaded bytes are
Contents == {"json", "truncated json", "broken json", "non-utf8 bytes"}

\* how reading webserver/index.html can end
ReadOutcomes == {"read", "FileNotFoundError", "PermissionError", "UnicodeDecodeError"}

\* `seen` names the parts of the request the handler has looked at
NoRequest == [method |-> "", path |-> "", content_type |-> "", userId |-> <<>>,
              chatFile |-> <<>>, content |-> "", index_read |-> "", seen |-> {}]

NoLocals == [temp_dir |-> <<>>, returncode |-> -1, stdout |-> "", stderr |-> "",
             archive |-> {}, zipped |-> FALSE]

\* the converter has not been started for this request
NoConverter == [state |-> "none", spawned |-> 0, elapsed |-> 0,
                made |-> FALSE, wrote |-> {}]

\* the handler is between `with tempfile.TemporaryDirectory()` and its exit
InWith == pc \in {"staged", "validated", "running", "exited", "zipping", "zipped"}

\* do_GET / do_POST is over: it returned, or an exception left it
Over == pc \in {"done", "raised"}

(***************************************************************************)
(* Initial state                                                           *)
(***************************************************************************)
Init ==
    /\ lpc = "start"
    /\ lenv = [missing |-> {}, uv |-> "", argv |-> <<>>, seen |-> {}]
    /\ exitCode = -1
    /\ printed = {}
    /\ port = 0
    /\ timerStarts = 0
    /\ browser = "none"
    /\ serverSpawns = 0
    /\ srv = "down"
    /\ served = 0
    /\ pc = "idle"
    /\ req = NoRequest
    /\ loc = NoLocals
    /\ resp = NoResponse
    /\ conv = NoConverter
    /\ fs = [dirs |-> {}, files |-> {}]
    /\ archivesSent = 0

(***************************************************************************)
(* The launcher: start_web_server.py                                       *)
(***************************************************************************)
required_files == {"webserver/index.html", "convert_chatgpt.py", "webserver/server.py"}

\* how subprocess.run(['uv', '--version'], check=True) can end
UvProbes == {"ok", "CalledProcessError", "FileNotFoundError", "PermissionError"}

\* sys.argv[1:]
Argvs == {<<>>, <<"8080">>, <<"abc">>}

\* int(sys.argv[1]); 0 stands for ValueError
ParsePort(a) == IF a = "8080" THEN 8080 ELSE 0

\* variant of check_dependencies: the result of the checks is dropped
check_dependenciesAlwaysTrue(missing, uv) == TRUE

\* check_dependencies(): no required file is missing and uv runs
check_dependencies(missing, uv) == missing = {} /\ uv = "ok"

\* main(), lines 49-52.  A probe that raises anything but the two caught
\* exceptions (PermissionError) leaves main() with a traceback and status 1.
CheckDependencies ==
    /\ lpc = "start"
    /\ \E missing \in SUBSET required_files, uv \in UvProbes :
         /\ lenv' = [lenv EXCEPT !.missing = missing, !.seen = @ \cup {"deps"},
                                  !.uv = IF missing = {} THEN uv ELSE ""]
         /\ IF check_dependencies(missing, uv)
            THEN /\ lpc' = "deps_ok"
                 /\ UNCHANGED <<exitCode, printed>>
            ELSE /\ lpc' = "exited"
                 /\ exitCode' = 1
                 /\ printed' = printed
                       \cup (IF missing # {}
                             THEN {"Error: Missing required files",
                                   "Please fix the above issues and try again."}
                             ELSE IF uv = "PermissionError"
                             THEN {"Traceback (most recent call last)"}
                             ELSE {"Warning: 'uv' command not found",
                                   "Please fix the above issues and try again."})
    /\ UNCHANGED <<port, timerStarts, browser, serverSpawns, srv, served>>
    /\ UNCHANGED handlerVars

\* main(), lines 54-61
GetPort ==
    /\ lpc = "deps_ok"
    /\ \E argv \in Argvs :
         /\ lenv' = [lenv EXCEPT !.argv = argv, !.seen = @ \cup {"argv"}]
         /\ IF argv = <<>>
            THEN /\ port' = DefaultPort
                 /\ lpc' = "port_ok"
                 /\ UNCHANGED <<exitCode, printed>>
            ELSE IF ParsePort(argv[1]) # 0
            THEN /\ port' = ParsePort(argv[1])
                 /\ lpc' = "port_ok"
                 /\ UNCHANGED <<exitCode, printed>>
            ELSE /\ lpc' = "exited"
                 /\ exitCode' = 1
                 /\ printed' = printed \cup {"Invalid port number"}
                 /\ UNCHANGED port
    /\ UNCHANGED <<timerStarts, browser, serverSpawns, srv, served>>
    /\ UNCHANGED handlerVars

\* main(), lines 63-69: Timer(2, open_browser, args=(url,)).start()
StartTimer ==
    /\ lpc = "port_ok"
    /\ timerStarts' = timerStarts + 1
    /\ browser' = "pending"
    /\ lpc' = "timer_started"
    /\ UNCHANGED <<lenv, exitCode, printed, port, serverSpawns, srv, served>>
    /\ UNCHANGED handlerVars

\* open_browser(url) on the Timer thread; it runs once, whatever main() does
OpenBrowser ==
    /\ browser = "pending"
    /\ \E ok \in BOOLEAN :
         /\ browser' = IF ok THEN "opened" ELSE "failed"
         /\ printed' = printed \cup {IF ok THEN "Opened browser"
                                     ELSE "Could not open browser automatically"}
    /\ UNCHANGED <<lenv, lpc, exitCode, port, timerStarts, serverSpawns, srv, served>>
    /\ UNCHANGED handlerVars

\* main(), lines 71-78: subprocess.run([sys.executable, 'webserver/server.py', ...])
SpawnServer ==
    /\ lpc = "timer_started"
    /\ \E started \in BOOLEAN :
         IF started
         THEN /\ serverSpawns' = serverSpawns + 1
              /\ srv' = "starting"
              /\ lpc' = "waiting"
              /\ UNCHANGED <<exitCode, printed>>
         ELSE /\ lpc' = "exited"
              /\ exitCode' = 1
              /\ printed' = printed \cup {"Error starting server"}
              /\ UNCHANGED <<serverSpawns, srv>>
    /\ UNCHANGED <<lenv, port, timerStarts, browser, served>>
    /\ UNCHANGED handlerVars

\* server.py, lines 165-182 and run_server up to serve_forever(); when the
\* child exits, subprocess.run in main() returns and main() returns 0
ServerMain ==
    /\ srv = "starting"
    /\ \E filesThere \in BOOLEAN :
         IF filesThere
         THEN /\ srv' = "serving"
              /\ UNCHANGED <<lpc, exitCode>>
         ELSE /\ srv' = "exited"
              /\ lpc' = "exited"
              /\ exitCode' = 0
    /\ UNCHANGED <<lenv, printed, port, timerStarts, browser, serverSpawns, served>>
    /\ UNCHANGED handlerVars

\* Ctrl+C between two requests: serve_forever() is left (run_server, lines
\* 160-162) and main() reports a clean stop (lines 74-75, 80)
Interrupt ==
    /\ srv = "serving"
    /\ lpc = "waiting"
    /\ pc \in {"idle", "done", "raised"}
    /\ srv' = "stopped"
    /\ lpc' = "exited"
    /\ exitCode' = 0
    /\ printed' = printed \cup {"Server stopped by user."}
    /\ UNCHANGED <<lenv, port, timerStarts, browser, serverSpawns, served>>
    /\ UNCHANGED handlerVars

(***************************************************************************)
(* The server: ConvertHandler                                              *)
(***************************************************************************)
\* the handler is over with outcome res = [raised, resp]
Finish(res) ==
    /\ resp' = res.resp
    /\ pc' = IF res.raised THEN "raised" ELSE "done"

\* HTTPServer.serve_forever (run_server, line 159) takes the next request
\* only when the handler of the previous one is over
Accept ==
    /\ srv = "serving"
    /\ pc \in {"idle", "done", "raised"}
    /\ served < NumRequests
    /\ served' = served + 1
    /\ \E m \in Methods, p \in Paths :
         /\ req' = [NoRequest EXCEPT !.method = m, !.path = p]
         /\ pc' = IF m = "GET" THEN "get" ELSE "post"
    /\ loc' = NoLocals
    /\ resp' = NoResponse
    /\ conv' = NoConverter
    /\ UNCHANGED <<fs, archivesSent, srv>>
    /\ UNCHANGED launcherVars

\* do_GET, lines 16-29
do_GET ==
    /\ pc = "get"
    /\ IF req.path \in {"/", "/webserver/index.html"}
       THEN \E o \in ReadOutcomes :
              /\ req' = [req EXCEPT !.index_read = o, !.seen = @ \cup {"index_read"}]
              /\ CASE o = "read" ->
                        Finish([raised |-> FALSE,
                                resp |-> Write(end_headers(send_header(
                                             send_response(resp, 200, <<"OK">>),
                                             "Content-type", <<"text/html; charset=utf-8">>)),
                                           Chunk("html", <<"index.html">>, {}))])
                   [] o = "FileNotFoundError" ->
                        Finish([raised |-> FALSE,
                                resp |-> send_error(resp, 404, <<"index.html not found">>)])
                   [] OTHER ->
                        Finish([raised |-> TRUE, resp |-> resp])
       ELSE /\ Finish([raised |-> FALSE,
                       resp |-> send_error(resp, 404, <<"File not found">>)])
            /\ UNCHANGED req
    /\ UNCHANGED <<loc, conv, fs, archivesSent, srv, served>>
    /\ UNCHANGED launcherVars

\* do_POST, lines 33 and 142-143: a path other than /convert
PostNotFound ==
    /\ pc = "post"
    /\ req.path # "/convert"
    /\ Finish([raised |-> FALSE, resp |-> send_error(resp, 404, <<"Endpoint not found">>)])
    /\ UNCHANGED <<req, loc, conv, fs, archivesSent, srv, served>>
    /\ UNCHANGED launcherVars

\* do_POST, lines 35-62, for headers h, and form fields u, c; the result
\* names the position reached and what the handler looked at
ParseOutcome(r, ct, u, c) ==
    CASE ct = "<absent>" ->
           [seen |-> {"content_type"},
            res |-> Caught(r, <<"'NoneType' object has no attribute 'startswith'">>)]
      [] ~IsMultipart(ct) ->
           [seen |-> {"content_type"},
            res |-> TrySendError(r, 400, <<"Expected multipart/form-data">>)]
      [] ct = "multipart/form-data" ->
           [seen |-> {"content_type"},
            res |-> Caught(r, <<"Invalid boundary in multipart form: b''">>)]
      [] u = <<>> ->
           [seen |-> {"content_type", "userId"},
            res |-> TrySendError(r, 400, <<"Missing userId field">>)]
      [] Len(u) > 1 ->
           [seen |-> {"content_type", "userId"},
            res |-> Caught(r, <<"'list' object has no attribute 'value'">>)]
      [] c = <<>> ->
           [seen |-> {"content_type", "userId", "chatFile"},
            res |-> TrySendError(r, 400, <<"Missing chatFile field">>)]
      [] Len(c) > 1 ->
           [seen |-> {"content_type", "userId", "chatFile"},
            res |-> Caught(r, <<"'list' object has no attribute 'filename'">>)]
      [] c[1] = "" ->
           [seen |-> {"content_type", "userId", "chatFile"},
            res |-> TrySendError(r, 400, <<"No file selected">>)]
      [] OTHER ->
           [seen |-> {"content_type", "userId", "chatFile", "accepted"},
            res |-> [raised |-> FALSE, resp |-> r]]

PostParse ==
    /\ pc = "post"
    /\ req.path = "/convert"
    /\ \E ct \in ContentTypes, u \in UserIdFields, c \in ChatFileFields :
         LET o == ParseOutcome(resp, ct, u, c) IN
         /\ req' = [req EXCEPT
                      !.content_type = ct,
                      !.userId = IF "userId" \in o.seen THEN u ELSE <<>>,
                      !.chatFile = IF "chatFile" \in o.seen THEN c ELSE <<>>,
                      !.seen = o.seen]
         /\ IF "accepted" \in o.seen
            THEN pc' = "parsed" /\ UNCHANGED resp
            ELSE Finish(o.res)
    /\ UNCHANGED <<loc, conv, fs, archivesSent, srv, served>>
    /\ UNCHANGED launcherVars

\* user_id = form['userId'].value
user_id == req.userId[1]

\* do_POST, lines 65-69: mkdtemp hands out a name that does not exist; the
\* upload is written to conversations.json (the write can fail: disk full)
Stage ==
    /\ pc = "parsed"
    /\ \E d \in TmpNames, written \in BOOLEAN :
         /\ <<d>> \notin fs.dirs
         /\ loc' = [loc EXCEPT !.temp_dir = d]
         /\ IF written
            THEN /\ fs' = WriteFile(MakeDirs(fs, <<d>>), input_file(d), served)
                 /\ pc' = "staged"
                 /\ UNCHANGED resp
            ELSE /\ fs' = TemporaryDirectoryExit(MakeDirs(fs, <<d>>), d)
                 /\ Finish(Caught(resp, <<"[Errno 28] No space left on device">>))
    /\ UNCHANGED <<req, conv, archivesSent, srv, served>>
    /\ UNCHANGED launcherVars

\* do_POST, lines 71-77: json.load of the staged file, opened as UTF-8;
\* only json.JSONDecodeError is answered with 400
Validate ==
    /\ pc = "staged"
    /\ \E c \in Contents :
         /\ req' = [req EXCEPT !.content = c, !.seen = @ \cup {"content"}]
         /\ CASE c = "json" ->
                   /\ pc' = "validated"
                   /\ UNCHANGED <<resp, fs>>
              [] c \in {"truncated json", "broken json"} ->
                   /\ Finish(TrySendError(resp, 400,
                                <<"Invalid JSON file: ", "Expecting value: line 1 column 1 (char 0)">>))
                   /\ fs' = TemporaryDirectoryExit(fs, loc.temp_dir)
              [] OTHER ->
                   /\ Finish(Caught(resp, <<"'utf-8' codec can't decode byte 0xff">>))
                   /\ fs' = TemporaryDirectoryExit(fs, loc.temp_dir)
    /\ UNCHANGED <<loc, conv, archivesSent, srv, served>>
    /\ UNCHANGED launcherVars

\* how starting ['uv', 'run', ...] can end
SpawnOutcomes == {"started", "FileNotFoundError", "PermissionError"}

\* do_POST, lines 79-98 up to the start of the child, and lines 108-110
Spawn ==
    /\ pc = "validated"
    /\ \E o \in SpawnOutcomes :
         CASE o = "started" ->
                /\ fs' = MakeDirs(fs, output_dir(loc.temp_dir))
                /\ conv' = [conv EXCEPT !.state = "running", !.spawned = @ + 1,
                                        !.elapsed = 0]
                /\ pc' = "running"
                /\ UNCHANGED resp
           [] o = "FileNotFoundError" ->
                /\ fs' = TemporaryDirectoryExit(fs, loc.temp_dir)
                /\ Finish(TrySendError(resp, 500,
                             <<"uv command not found. Please install uv.">>))
                /\ UNCHANGED conv
           [] OTHER ->
                /\ fs' = TemporaryDirectoryExit(fs, loc.temp_dir)
                /\ Finish(Caught(resp, <<"[Errno 13] Permission denied: 'uv'">>))
                /\ UNCHANGED conv
    /\ UNCHANGED <<req, loc, archivesSent, srv, served>>
    /\ UNCHANGED launcherVars

(***************************************************************************)
(* The converter: `uv run convert_chatgpt.py --userid <id> --output-dir    *)
(* <dir> <input-file>`.  The script is not part of the sources modelled    *)
(* here; its contract is that it writes its files under <dir>/chatgpt/ and *)
(* exits 0 on success.                                                     *)
(***************************************************************************)
\* paths, relative to <dir>/chatgpt/, of the files a run may write
RelPaths == { << <<"a.json">> >>, << <<"sub">>, <<"b.json">> >> }

\* what a run may print to stdout and to stderr ("": nothing)
StdoutTexts == {"", "OUT", "OUT_cjk"}

StderrTexts == {"", "ERR", "ERR_cjk"}

ExitCodes == {0, 1}

\* the run creates <dir>/chatgpt/
ConverterMkdir ==
    /\ pc = "running"
    /\ conv.state = "running"
    /\ chatgpt_output_dir(loc.temp_dir) \notin fs.dirs
    /\ fs' = MakeDirs(fs, chatgpt_output_dir(loc.temp_dir))
    /\ UNCHANGED <<pc, req, loc, resp, conv, archivesSent, srv, served>>
    /\ UNCHANGED launcherVars

\* the run writes one output file
ConverterWrite ==
    /\ pc = "running"
    /\ conv.state = "running"
    /\ \E rel \in RelPaths :
         LET p == chatgpt_output_dir(loc.temp_dir) \o rel IN
         /\ ~Exists(fs, p)
         /\ fs' = WriteFile(MakeDirs(fs, Parent(p)), p, served)
    /\ UNCHANGED <<pc, req, loc, resp, conv, archivesSent, srv, served>>
    /\ UNCHANGED launcherVars

\* subprocess.run(..., timeout=60): the time is up
TimedOut(c) == c.elapsed >= Timeout

\* one unit of time passes while subprocess.run waits for the child
Tick ==
    /\ pc = "running"
    /\ conv.state = "running"
    /\ conv.elapsed < Timeout
    /\ conv' = [conv EXCEPT !.elapsed = @ + 1]
    /\ UNCHANGED <<pc, req, loc, resp, fs, archivesSent, srv, served>>
    /\ UNCHANGED launcherVars

\* the run ends before the time is up; subprocess.run returns its exit code
\* and what it captured (lines 92-98)
ConverterExit ==
    /\ pc = "running"
    /\ conv.state = "running"
    /\ conv.elapsed < Timeout
    /\ \E code \in ExitCodes, out \in StdoutTexts, err \in StderrTexts :
         loc' = [loc EXCEPT !.returncode = code, !.stdout = out, !.stderr = err]
    /\ conv' = [conv EXCEPT
                  !.state = "exited",
                  !.elapsed = 0,
                  !.made = chatgpt_output_dir(loc.temp_dir) \in fs.dirs,
                  !.wrote = {e.name : e \in WalkEntries(fs, chatgpt_output_dir(loc.temp_dir))}]
    /\ pc' = "exited"
    /\ UNCHANGED <<req, resp, fs, archivesSent, srv, served>>
    /\ UNCHANGED launcherVars

\* lines 105-107: subprocess.run kills the child and raises TimeoutExpired
TimeoutExpired ==
    /\ pc = "running"
    /\ conv.state = "running"
    /\ TimedOut(conv)
    /\ conv' = [conv EXCEPT !.state = "killed", !.elapsed = 0]
    /\ fs' = TemporaryDirectoryExit(fs, loc.temp_dir)
    /\ Finish(TrySendError(resp, 500, <<"Conversion timeout">>))
    /\ UNCHANGED <<req, loc, archivesSent, srv, served>>
    /\ UNCHANGED launcherVars

\* error_msg = result.stderr or result.stdout or "Conversion failed"
error_msg(l) ==
    IF l.stderr # "" THEN l.stderr
    ELSE IF l.stdout # "" THEN l.stdout
    ELSE "Conversion failed"

\* do_POST, lines 100-103 and 112-116
CheckResult ==
    /\ pc = "exited"
    /\ IF loc.returncode # 0
       THEN /\ Finish(TrySendError(resp, 500, <<"Conversion error: ", error_msg(loc)>>))
            /\ fs' = TemporaryDirectoryExit(fs, loc.temp_dir)
       ELSE IF ~Exists(fs, chatgpt_output_dir(loc.temp_dir))
       THEN /\ Finish(TrySendError(resp, 500, <<"No output files generated">>))
            /\ fs' = TemporaryDirectoryExit(fs, loc.temp_dir)
       ELSE /\ pc' = "zipping"
            /\ UNCHANGED <<resp, fs>>
    /\ UNCHANGED <<req, loc, conv, archivesSent, srv, served>>
    /\ UNCHANGED launcherVars

\* do_POST, lines 118-124: the zip file is created in temp_dir, then every
\* file below output/chatgpt goes in under its relative path
Zip ==
    /\ pc = "zipping"
    /\ LET zp == zip_path(loc.temp_dir, user_id) IN
       IF CanCreate(fs, zp)
       THEN LET f1 == WriteFile(fs, zp, served) IN
            /\ fs' = f1
            /\ loc' = [loc EXCEPT
                         !.archive = WalkEntries(f1, chatgpt_output_dir(loc.temp_dir)),
                         !.zipped = TRUE]
            /\ pc' = "zipped"
            /\ UNCHANGED resp
       ELSE /\ fs' = TemporaryDirectoryExit(fs, loc.temp_dir)
            /\ Finish(Caught(resp, <<"[Errno 2] No such file or directory: ">> \o Flatten(zp)))
            /\ UNCHANGED loc
    /\ UNCHANGED <<req, conv, archivesSent, srv, served>>
    /\ UNCHANGED launcherVars

\* f'attachment; filename="chatgpt_converted_{user_id}.zip"'
Disposition(uid) == <<"attachment; filename=chatgpt_converted_">> \o uid \o <<".zip">>

\* do_POST, lines 126-136 (and 138-141 when a header cannot be encoded:
\* the 200 status line is then already in the header buffer)
Send ==
    /\ pc = "zipped"
    /\ LET r1 == send_header(send_response(resp, 200, <<"OK">>),
                             "Content-Type", <<"application/zip">>)
       IN
       IF CanSendHeader(Disposition(user_id))
       THEN /\ Finish([raised |-> FALSE,
                       resp |-> Write(end_headers(send_header(
                                    send_header(r1, "Content-Disposition", Disposition(user_id)),
                                    "Content-Length", <<"len(zip_content)">>)),
                                  Chunk("zip", <<>>, loc.archive))])
            /\ archivesSent' = archivesSent + 1
       ELSE /\ Finish(Caught(r1, UnicodeEncodeError))
            /\ UNCHANGED archivesSent
    /\ fs' = TemporaryDirectoryExit(fs, loc.temp_dir)
    /\ UNCHANGED <<req, loc, conv, srv, served>>
    /\ UNCHANGED launcherVars

(***************************************************************************)
(* Specifications                                                          *)
(***************************************************************************)
Next ==
    \/ CheckDependencies
    \/ GetPort
    \/ StartTimer
    \/ OpenBrowser
    \/ SpawnServer
    \/ ServerMain
    \/ Interrupt
    \/ Accept
    \/ do_GET
    \/ PostNotFound
    \/ PostParse
    \/ Stage
    \/ Validate
    \/ Spawn
    \/ ConverterMkdir
    \/ ConverterWrite
    \/ Tick
    \/ ConverterExit
    \/ TimeoutExpired
    \/ CheckResult
    \/ Zip
    \/ Send

Spec == Init /\ [][Next]_vars

\* The handler's thread keeps running its code and time keeps passing
\* while subprocess.run waits; nothing obliges the converter to finish.
FairSpec ==
    /\ Spec
    /\ WF_vars(Tick)
    /\ WF_vars(TimeoutExpired)
    /\ WF_vars(CheckResult)
    /\ WF_vars(Zip)
    /\ WF_vars(Send)

(***************************************************************************)
(* Properties                                                              *)
(***************************************************************************)
IsConvertPost == req.method = "POST" /\ req.path = "/convert"

Saw(part) == part \in req.seen

\* the body chunks that are archives
ZipChunks == SelectSeq(resp.body, LAMBDA c : c.kind = "zip")

\* C1: a POST /convert with a userId field and a chatFile that parses as
\* JSON, whose converter run exits 0 and leaves the files F under
\* <output-dir>/chatgpt/, is answered 200 application/zip, and the entries
\* of the archive are exactly the files of F under their relative paths
\* (so neither conversations.json nor the zip file is among them).
C1_ArchiveIsExactlyConverterOutput ==
    (/\ Over
     /\ IsConvertPost
     /\ Saw("userId") /\ req.userId # <<>>
     /\ Saw("content") /\ req.content = "json"
     /\ conv.state = "exited" /\ loc.returncode = 0 /\ conv.made)
    => /\ StatusCodes(resp) = <<200>>
       /\ HeaderSent(resp, "Content-Type", <<"application/zip">>)
       /\ Len(ZipChunks) = 1
       /\ {e.name : e \in ZipChunks[1].entries} = conv.wrote
       /\ conv.wrote \subseteq RelPaths

\* C2: once do_POST is over, the temporary directory it created no longer
\* exists, whatever the outcome (archive sent, 400, 500, or an exception).
C2_TempDirRemoved ==
    (Over /\ loc.temp_dir # <<>>)
    => /\ \A p \in fs.dirs : ~IsPrefix(<<loc.temp_dir>>, p)
       /\ \A x \in fs.files : ~IsPrefix(<<loc.temp_dir>>, x.path)

\* C2 witness: a request that staged its upload, ran the converter, built
\* the archive and then failed while sending it.
C2_Witness ==
    /\ Over
    /\ loc.temp_dir # <<>>
    /\ loc.zipped
    /\ StatusCodes(resp) = <<200, 500>>

\* C3: an upload that is not valid structured data (truncated JSON, broken
\* JSON, bytes that are not UTF-8) is answered 400, and the converter is
\* never spawned for it.
C3_InvalidUploadIs400 ==
    (Over /\ Saw("content") /\ req.content # "json")
    => /\ StatusCodes(resp) = <<400>>
       /\ conv.spawned = 0

\* C4: a POST /convert that is not multipart/form-data (the Content-Type
\* header may be absent), or lacks userId, or lacks chatFile, or whose
\* chatFile has no filename, is answered 400, with no temporary directory
\* created and no converter spawned.
C4_MalformedFormIs400 ==
    (/\ Over
     /\ IsConvertPost
     /\ \/ ~IsMultipart(req.content_type)
        \/ Saw("userId") /\ req.userId = <<>>
        \/ Saw("chatFile") /\ req.chatFile = <<>>
        \/ Saw("chatFile") /\ Len(req.chatFile) = 1 /\ req.chatFile[1] = "")
    => /\ StatusCodes(resp) = <<400>>
       /\ loc.temp_dir = <<>>
       /\ conv.spawned = 0

\* C5: when the converter exits nonzero the response is 500 and its message
\* contains what the converter printed, stdout as well as stderr, whichever
\* of the two is empty; no archive is built or sent.
C5_FailureCarriesCapturedOutput ==
    (Over /\ conv.state = "exited" /\ loc.returncode # 0)
    => /\ StatusCodes(resp) = <<500>>
       /\ Contains(Statuses(resp)[1].text, loc.stdout)
       /\ Contains(Statuses(resp)[1].text, loc.stderr)
       /\ ~loc.zipped
       /\ ZipChunks = <<>>

\* C6: once the converter has been spawned the handler eventually sends a
\* response to that request; when the converter has not finished within
\* the timeout the response is 500 "Conversion timeout", no archive is
\* built, and the converter was run once.
C6_TimeoutBoundsTheHandler ==
    /\ \A n \in 1..(NumRequests + 1) :
         (served = n /\ pc = "running")
            ~> (served = n /\ Over /\ Statuses(resp) # <<>>)
    /\ [](conv.state = "killed"
            => /\ Over
               /\ Statuses(resp) = <<StatusLine(500, <<"Conversion timeout">>)>>
               /\ ~loc.zipped
               /\ ZipChunks = <<>>
               /\ conv.spawned = 1)

\* C7: the archive of a request holds only files the converter wrote for
\* that request, and no temporary directory other than the one of the
\* request being handled exists or holds another request's files.
C7_ArchiveHoldsOnlyOwnFiles ==
    /\ \A e \in loc.archive : e.origin = served
    /\ \A i \in 1..Len(resp.body) : \A e \in resp.body[i].entries : e.origin = served
    /\ \A d \in TmpNames :
         <<d>> \in fs.dirs => InWith /\ d = loc.temp_dir
    /\ \A x \in fs.files :
         (\E d \in TmpNames : IsPrefix(<<d>>, x.path)) => x.origin = served

\* C7 witness: a second request received its archive after an earlier
\* request had received one.
C7_Witness ==
    /\ archivesSent >= 2
    /\ pc = "done"
    /\ ZipChunks # <<>>
    /\ loc.archive # {}

\* C8: a GET on '/' or '/webserver/index.html' is answered 200 with the
\* page or 404, and 404 whenever reading the page fails; a GET on any
\* other path is answered 404.
C8_GetIs200Or404 ==
    (Over /\ req.method = "GET")
    => IF req.path \in {"/", "/webserver/index.html"}
       THEN /\ StatusCodes(resp) \in {<<200>>, <<404>>}
            /\ req.index_read # "read" => StatusCodes(resp) = <<404>>
       ELSE StatusCodes(resp) = <<404>>

\* what the launcher found out
DepsFailed == "deps" \in lenv.seen /\ ~(lenv.missing = {} /\ lenv.uv = "ok")

BadPort == "argv" \in lenv.seen /\ lenv.argv = <<"abc">>

Reasons == {"Error: Missing required files", "Warning: 'uv' command not found",
            "Traceback (most recent call last)", "Invalid port number"}

\* C9: the launcher spawns the server only after check_dependencies has
\* succeeded and the port has been read; when a required file is missing,
\* uv cannot be run or the port is not an integer, main reports the reason
\* and ends with a nonzero code, no timer scheduled and no server spawned;
\* the browser timer is scheduled at most once, and has been scheduled
\* when the server is spawned.
C9_ServerOnlyAfterChecks ==
    /\ timerStarts <= 1
    /\ serverSpawns <= 1
    /\ timerStarts = 1 => "deps" \in lenv.seen /\ "argv" \in lenv.seen
    /\ serverSpawns = 1 => timerStarts = 1
    /\ srv # "down" => serverSpawns = 1
    /\ (DepsFailed \/ BadPort)
         => /\ lpc = "exited"
            /\ exitCode > 0
            /\ printed \cap Reasons # {}
            /\ timerStarts = 0
            /\ browser = "none"
            /\ serverSpawns = 0
            /\ srv = "down"

\* C9 witness: the server is up, spawned by a launcher whose checks passed.
C9_Witness ==
    /\ srv = "serving"
    /\ serverSpawns = 1
    /\ timerStarts = 1
    /\ ~DepsFailed
    /\ ~BadPort

\* C10: a POST handled by do_POST produces exactly one status line: never
\* two, and do_POST never returns without having sent one.
C10_ExactlyOneStatus ==
    /\ (Over /\ req.method = "POST") => Len(Statuses(resp)) <= 1
    /\ (pc = "done" /\ req.method = "POST") => Len(Statuses(resp)) >= 1

(***************************************************************************)
(* Further properties, which hold of Spec (the last one of FairSpec)       *)
(***************************************************************************)
\* a converter still running when the time is up is killed and answered
\* with exactly 500 "Conversion timeout"; nothing is zipped, nothing rerun
TimeoutAnswered ==
    conv.state = "killed"
    => /\ Over
       /\ Statuses(resp) = <<StatusLine(500, <<"Conversion timeout">>)>>
       /\ ~loc.zipped
       /\ ZipChunks = <<>>
       /\ conv.spawned = 1

\* with a user id of one Latin-1 segment, a successful run is answered with
\* the archive of exactly the converter's files
PlainIdGetsArchive ==
    (/\ Over
     /\ IsConvertPost
     /\ Saw("accepted") /\ Len(user_id) = 1 /\ Latin1(user_id)
     /\ Saw("content") /\ req.content = "json"
     /\ conv.state = "exited" /\ loc.returncode = 0 /\ conv.made)
    => /\ StatusCodes(resp) = <<200>>
       /\ HeaderSent(resp, "Content-Type", <<"application/zip">>)
       /\ Len(ZipChunks) = 1
       /\ {e.name : e \in ZipChunks[1].entries} = conv.wrote

\* with Latin-1 output, a failed run is answered 500 with stderr, else
\* stdout, else "Conversion failed"
ErrorTextChain ==
    (/\ Over
     /\ conv.state = "exited" /\ loc.returncode # 0
     /\ Latin1(<<loc.stdout, loc.stderr>>))
    => /\ StatusCodes(resp) = <<500>>
       /\ Statuses(resp)[1].text = <<"Conversion error: ", error_msg(loc)>>

\* a request rejected before staging creates no directory and spawns nothing
RejectedLeavesNoTrace ==
    (Over /\ IsConvertPost /\ ~Saw("accepted"))
    => loc.temp_dir = <<>> /\ conv.spawned = 0

\* the handler never waits for the converter for ever
HandlerEnds == (pc = "running") ~> Over

=============================================================================
